---- MODULE Spec2Model ----
(***************************************************************************)
(* A model of verse_notes.py: the reference parser (parse_reference), the  *)
(* note store kept in bible_notes with its /addnote and /delnote commands  *)
(* and its persistence (save_notes), the note resolver                     *)
(* (get_notes_for_reference) and the flag scanner of start_repl.           *)
(*                                                                         *)
(* A Python str is a sequence of one-character strings.  None is the empty *)
(* sequence: the groups of the reference pattern never capture the empty   *)
(* string, and the code only tests these values for truth.                 *)
(***************************************************************************)
EXTENDS Integers, Sequences, FiniteSets, TLC

VARIABLES
    bible_notes,    \* the in-memory store: books in insertion order
    disk,           \* the persisted document at NOTES_FILE_PATH
    last,           \* the command the loop handled last, and its outcome
    prev_notes,     \* bible_notes as it was before that command
    prev_disk,      \* disk as it was before that command
    shown,          \* what that command printed
    synced,         \* the outcome of the most recent save_notes call
    save_failures,  \* how many save_notes calls failed so far
    scenario,       \* which reference strings the user types in this run
    ref_string,     \* parse_reference: its argument
    parsed,         \* parse_reference: its result
    parts,          \* flag scan: the tokens of the input line
    i,              \* flag scan: the loop index (0-based, as in the code)
    flags,          \* flag scan: the set of flags seen
    query_parts,    \* flag scan: the tokens that are not flags
    joiner_str,     \* flag scan: the joiner given with -j
    note_level,     \* flag scan: the note level
    pc              \* flag scan: where the loop iteration stands

vars == <<bible_notes, disk, last, prev_notes, prev_disk, shown, synced, save_failures,
          scenario, ref_string, parsed, parts, i, flags, query_parts,
          joiner_str, note_level, pc>>

storeVars == <<bible_notes, disk, last, prev_notes, prev_disk, shown, synced,
               save_failures, scenario>>
parseVars == <<ref_string, parsed>>
flagVars == <<parts, i, flags, query_parts, joiner_str, note_level, pc>>

(***************************************************************************)
(* Characters and strings.                                                 *)
(***************************************************************************)
None == <<>>

LowerCase == <<"a","b","c","d","e","f","g","h","i","j","k","l","m",
               "n","o","p","q","r","s","t","u","v","w","x","y","z">>
UpperCase == <<"A","B","C","D","E","F","G","H","I","J","K","L","M",
               "N","O","P","Q","R","S","T","U","V","W","X","Y","Z">>
DigitChars == <<"0","1","2","3","4","5","6","7","8","9">>

Range(f) == {f[x] : x \in DOMAIN f}
IndexOf(c, f) == CHOOSE x \in DOMAIN f : f[x] = c

Digits == Range(DigitChars)
LowerLetters == Range(LowerCase)
UpperLetters == Range(UpperCase)

IsDigit(c) == c \in Digits
IsLower(c) == c \in LowerLetters
IsUpper(c) == c \in UpperLetters
IsLetter(c) == IsLower(c) \/ IsUpper(c)
IsSpace(c) == c \in {" ", "\t", "\n"}
IsVerseChar(c) == IsDigit(c) \/ c \in {"-", ","}
IsBookChar(c) == IsLetter(c) \/ IsSpace(c)

ToUpper(c) == IF IsLower(c) THEN UpperCase[IndexOf(c, LowerCase)] ELSE c
ToLower(c) == IF IsUpper(c) THEN LowerCase[IndexOf(c, UpperCase)] ELSE c

\* str.lower()
lower(s) == [k \in 1..Len(s) |-> ToLower(s[k])]

\* str.strip(): leading and trailing whitespace removed.
strip(s) ==
    LET keep == {k \in 1..Len(s) : ~IsSpace(s[k])}
        Min(S) == CHOOSE x \in S : \A y \in S : x <= y
        Max(S) == CHOOSE x \in S : \A y \in S : x >= y
    IN  IF keep = {} THEN <<>> ELSE SubSeq(s, Min(keep), Max(keep))

\* The book name left as typed: .title() forgotten.
untitled(s) == s

\* str.title(): a letter that follows no letter is upper-cased, every other
\* letter is lower-cased.
title(s) ==
    [k \in 1..Len(s) |->
        IF ~IsLetter(s[k]) THEN s[k]
        ELSE IF k = 1 \/ ~IsLetter(s[k-1]) THEN ToUpper(s[k])
        ELSE ToLower(s[k])]

\* int(s): an optional sign and a non-empty run of digits; everything else
\* the model meets raises ValueError.
Unsigned(s) == IF Len(s) > 0 /\ s[1] \in {"-", "+"} THEN Tail(s) ELSE s
IsInt(s) == Len(Unsigned(s)) > 0 /\ \A k \in 1..Len(Unsigned(s)) : IsDigit(Unsigned(s)[k])

RECURSIVE DigitsValue(_)
DigitsValue(s) ==
    IF Len(s) = 0 THEN 0
    ELSE 10 * DigitsValue(SubSeq(s, 1, Len(s) - 1))
         + (IndexOf(s[Len(s)], DigitChars) - 1)

int(s) == IF s[1] = "-" THEN 0 - DigitsValue(Unsigned(s)) ELSE DigitsValue(Unsigned(s))

\* sep.join(words)
RECURSIVE join(_, _)
join(sep, words) ==
    IF Len(words) = 0 THEN <<>>
    ELSE IF Len(words) = 1 THEN words[1]
    ELSE words[1] \o sep \o join(sep, Tail(words))

\* str.split(sep) for a one-character separator.
RECURSIVE split(_, _)
split(s, sep) ==
    LET hits == {k \in 1..Len(s) : s[k] = sep}
    IN  IF hits = {} THEN <<s>>
        ELSE LET k == CHOOSE x \in hits : \A y \in hits : x <= y
             IN  <<SubSeq(s, 1, k - 1)>> \o split(SubSeq(s, k + 1, Len(s)), sep)

(***************************************************************************)
(* parse_reference.                                                        *)
(***************************************************************************)
\* The first position at or after p whose character is not in the class:
\* a greedy run, as \s*, \d+ and [\d\-,]+ take it.
InClass(class, c) ==
    CASE class = "\\s" -> IsSpace(c)
      [] class = "\\d" -> IsDigit(c)
      [] class = "[\\d\\-,]" -> IsVerseChar(c)

RECURSIVE SkipWhile(_, _, _)
SkipWhile(s, p, class) ==
    IF p <= Len(s) /\ InClass(class, s[p]) THEN SkipWhile(s, p + 1, class) ELSE p

\* The tail with (\d+) for (\d+)?: a chapter is required.
MatchTail_chapter_required(s, p) ==
    LET p1 == SkipWhile(s, p, "\\s")
        p2 == SkipWhile(s, p1, "\\d")
        fail == [ok |-> FALSE, chapter |-> None, verse_key |-> None]
    IN  IF p2 = p1 THEN fail
        ELSE IF p2 > Len(s)
        THEN [ok |-> TRUE, chapter |-> SubSeq(s, p1, p2 - 1), verse_key |-> None]
        ELSE IF s[p2] # ":" THEN fail
        ELSE LET p3 == SkipWhile(s, p2 + 1, "\\s")
                 p4 == SkipWhile(s, p3, "[\\d\\-,]")
             IN  IF p4 > p3 /\ p4 > Len(s)
                 THEN [ok |-> TRUE, chapter |-> SubSeq(s, p1, p2 - 1),
                       verse_key |-> SubSeq(s, p3, Len(s))]
                 ELSE fail

\* The tail of the pattern matched at position p:
\*     \s*(\d+)?(?::\s*([\d\-,]+))?$
\* Each greedy run is followed by something its class excludes, so giving a
\* character back never turns a failure into a match: the greedy attempt
\* decides.
MatchTail(s, p) ==
    LET p1 == SkipWhile(s, p, "\\s")
        p2 == SkipWhile(s, p1, "\\d")
        chapter == SubSeq(s, p1, p2 - 1)
    IN  IF p2 > Len(s)
        THEN [ok |-> TRUE, chapter |-> chapter, verse_key |-> None]
        ELSE IF s[p2] # ":"
        THEN [ok |-> FALSE, chapter |-> None, verse_key |-> None]
        ELSE LET p3 == SkipWhile(s, p2 + 1, "\\s")
                 p4 == SkipWhile(s, p3, "[\\d\\-,]")
             IN  IF p4 > p3 /\ p4 > Len(s)
                 THEN [ok |-> TRUE, chapter |-> chapter,
                       verse_key |-> SubSeq(s, p3, Len(s))]
                 ELSE [ok |-> FALSE, chapter |-> None, verse_key |-> None]

\* The ends e of a lazy run [A-Za-z\s]+? from position from after which the
\* tail matches; the lazy run stops at the least of them.
BookEnds(s, from) ==
    {e \in from..Len(s) :
        /\ \A k \in from..e : IsBookChar(s[k])
        /\ MatchTail(s, e + 1).ok}

\* pattern.match(ref_string): the optional (\d\s) is tried first, then the
\* match without it.
PatternMatch(s) ==
    LET Least(S) == CHOOSE x \in S : \A y \in S : x <= y
        withDigit == Len(s) >= 2 /\ IsDigit(s[1]) /\ IsSpace(s[2])
        from == IF withDigit /\ BookEnds(s, 3) # {} THEN 3 ELSE 1
        ends == BookEnds(s, from)
    IN  IF ends = {}
        THEN [ok |-> FALSE, group1 |-> None, chapter |-> None, verse_key |-> None]
        ELSE LET e == Least(ends)
                 t == MatchTail(s, e + 1)
             IN  [ok |-> TRUE, group1 |-> SubSeq(s, 1, e),
                  chapter |-> t.chapter, verse_key |-> t.verse_key]

\* re.fullmatch(r"^((\d\s)?[A-Za-z\s]+)$", ref_string)
BookOnlyMatch(s) ==
    \/ Len(s) >= 1 /\ \A k \in 1..Len(s) : IsBookChar(s[k])
    \/ /\ Len(s) >= 3 /\ IsDigit(s[1]) /\ IsSpace(s[2])
       /\ \A k \in 3..Len(s) : IsBookChar(s[k])

Invalid == [book |-> None, chapter |-> None, verse_key |-> None]

parse_reference(raw) ==
    LET s == strip(raw)
        m == PatternMatch(s)
    IN  IF ~m.ok
        THEN IF BookOnlyMatch(s)
             THEN [book |-> title(s), chapter |-> None, verse_key |-> None]
             ELSE Invalid
        ELSE [book |-> title(strip(m.group1)), chapter |-> m.chapter,
              verse_key |-> m.verse_key]

(***************************************************************************)
(* The note store: bible_notes.  A dict is the sequence of its entries in  *)
(* insertion order, each entry carrying its key.                           *)
(***************************************************************************)
HasKey(entries, k) == \E j \in 1..Len(entries) : entries[j].key = k
Find(entries, k) == CHOOSE j \in 1..Len(entries) : entries[j].key = k

NewBook(b) == [key |-> b, notes |-> <<>>, chapters |-> <<>>]
NewChapter(c) == [key |-> c, notes |-> <<>>, verses |-> <<>>]
NewVerse(v) == [key |-> v, notes |-> <<>>]

\* /addnote, lines 334-357: the store after the note is added under a
\* reference whose book is not None.
add_note(store, ref, note_text) ==
    LET s1 == IF HasKey(store, ref.book) THEN store
              ELSE Append(store, NewBook(ref.book))
        b == Find(s1, ref.book)
    IN  IF ref.chapter = None
        THEN [s1 EXCEPT ![b].notes = Append(@, note_text)]
        ELSE LET s2 == IF HasKey(s1[b].chapters, ref.chapter) THEN s1
                       ELSE [s1 EXCEPT ![b].chapters = Append(@, NewChapter(ref.chapter))]
                 c == Find(s2[b].chapters, ref.chapter)
             IN  IF ref.verse_key = None
                 THEN [s2 EXCEPT ![b].chapters[c].notes = Append(@, note_text)]
                 ELSE LET s3 == IF HasKey(s2[b].chapters[c].verses, ref.verse_key) THEN s2
                                ELSE [s2 EXCEPT ![b].chapters[c].verses =
                                                    Append(@, NewVerse(ref.verse_key))]
                          v == Find(s3[b].chapters[c].verses, ref.verse_key)
                      IN  [s3 EXCEPT ![b].chapters[c].verses[v].notes =
                                         Append(@, note_text)]

\* /delnote, lines 379-390: whether the indexing that selects target_list
\* raises KeyError.
target_missing(store, ref) ==
    \/ ~HasKey(store, ref.book)
    \/ /\ ref.chapter # None
       /\ \/ ~HasKey(store[Find(store, ref.book)].chapters, ref.chapter)
          \/ /\ ref.verse_key # None
             /\ ~HasKey(store[Find(store, ref.book)]
                          .chapters[Find(store[Find(store, ref.book)].chapters,
                                         ref.chapter)].verses,
                        ref.verse_key)

\* /delnote, lines 379-390: target_list, when the indexing succeeds.
target_list(store, ref) ==
    LET book == store[Find(store, ref.book)]
    IN  IF ref.chapter = None THEN book.notes
        ELSE LET chap == book.chapters[Find(book.chapters, ref.chapter)]
             IN  IF ref.verse_key = None THEN chap.notes
                 ELSE chap.verses[Find(chap.verses, ref.verse_key)].notes

\* index_ok without its lower bound: position 0 becomes index -1.
index_ok_no_lower_bound(note_num, length) == note_num < length

\* Line 392: whether note_num selects a note of target_list.
index_ok(note_num, length) == 0 <= note_num /\ note_num < length

\* A Python index as a position of the sequence: a negative index counts
\* from the end.
position(list, k) == IF k < 0 THEN Len(list) + k + 1 ELSE k + 1

\* Whether list.pop(k) raises IndexError.
pop_raises(list, k) == position(list, k) < 1 \/ position(list, k) > Len(list)

\* pop that removes the element after the one asked for.
pop_next(list, k) ==
    SubSeq(list, 1, position(list, k)) \o SubSeq(list, position(list, k) + 2, Len(list))

\* list.pop(k): the list that remains.
pop(list, k) ==
    SubSeq(list, 1, position(list, k) - 1)
    \o SubSeq(list, position(list, k) + 1, Len(list))

\* /delnote, line 393: the store after target_list.pop(note_num).
del_note(store, ref, note_num) ==
    LET b == Find(store, ref.book)
    IN  IF ref.chapter = None
        THEN [store EXCEPT ![b].notes = pop(@, note_num)]
        ELSE LET c == Find(store[b].chapters, ref.chapter)
             IN  IF ref.verse_key = None
                 THEN [store EXCEPT ![b].chapters[c].notes = pop(@, note_num)]
                 ELSE LET v == Find(store[b].chapters[c].verses, ref.verse_key)
                      IN  [store EXCEPT ![b].chapters[c].verses[v].notes =
                                            pop(@, note_num)]

(***************************************************************************)
(* The note resolver: get_notes_for_reference.                             *)
(***************************************************************************)
EmptyNotes == [book |-> <<>>, chapter |-> <<>>, group |-> <<>>, individual |-> <<>>]

\* Lines 177-185: the loop over chapter_verses.items() from entry k on, with
\* what notes["group"] holds so far.  int() of a part that is no integer
\* raises ValueError, which leaves the loop: the handler is outside it
\* (line 186).
RECURSIVE group_loop(_, _, _, _, _)
group_loop(verses, k, verse_key, current_verse_num, group) ==
    IF k > Len(verses) THEN group
    ELSE LET key == verses[k].key
             key_parts == split(key, "-")
         IN  IF "-" \notin Range(key) \/ key = verse_key
             THEN group_loop(verses, k + 1, verse_key, current_verse_num, group)
             ELSE IF Len(key_parts) # 2
             THEN group_loop(verses, k + 1, verse_key, current_verse_num, group)
             ELSE IF ~IsInt(key_parts[1]) \/ ~IsInt(key_parts[2])
             THEN group
             ELSE IF int(key_parts[1]) <= current_verse_num
                     /\ current_verse_num <= int(key_parts[2])
             THEN group_loop(verses, k + 1, verse_key, current_verse_num,
                             group \o verses[k].notes)
             ELSE group_loop(verses, k + 1, verse_key, current_verse_num, group)

\* Lines 172-187.
group_notes(verses, verse_key) ==
    IF ~IsInt(split(verse_key, "-")[1]) THEN <<>>
    ELSE group_loop(verses, 1, verse_key, int(split(verse_key, "-")[1]), <<>>)

\* The scopes a note level asks for, lines 150, 159, 168 and 172.
wants_book(level) == level >= 4

\* wants_chapter with = for >=: level 4 loses the chapter notes.
wants_chapter_at_3_only(level) == level = 3

wants_chapter(level) == level >= 3

\* wants_individual with = for >=: only level 1 shows the verse's notes.
wants_individual_at_1_only(level) == level = 1

wants_individual(level) == level >= 1
wants_group(level) == level >= 2

get_notes_for_reference(store, book, chapter, verse_key, level) ==
    IF book = None \/ ~HasKey(store, book) THEN EmptyNotes
    ELSE
    LET entry == store[Find(store, book)]
        n1 == [EmptyNotes EXCEPT !.book = IF wants_book(level) THEN entry.notes ELSE <<>>]
    IN  IF chapter = None \/ ~HasKey(entry.chapters, chapter) THEN n1
        ELSE
        LET chap == entry.chapters[Find(entry.chapters, chapter)]
            n2 == [n1 EXCEPT !.chapter = IF wants_chapter(level) THEN chap.notes ELSE <<>>]
        IN  IF verse_key = None \/ chap.verses = <<>> THEN n2
            ELSE
            LET n3 == [n2 EXCEPT !.individual =
                          IF wants_individual(level) /\ HasKey(chap.verses, verse_key)
                          THEN chap.verses[Find(chap.verses, verse_key)].notes
                          ELSE <<>>]
            IN  [n3 EXCEPT !.group =
                    IF wants_group(level) THEN group_notes(chap.verses, verse_key)
                    ELSE <<>>]

(***************************************************************************)
(* /allnotes, lines 405-429: the sections printed, each with its heading.  *)
(***************************************************************************)
RECURSIVE list_verses(_, _, _, _)
list_verses(book, chapter, verses, k) ==
    IF k > Len(verses) THEN <<>>
    ELSE (IF verses[k].notes # <<>>
          THEN <<[label |-> book \o <<" ">> \o chapter \o <<":">> \o verses[k].key,
                  notes |-> verses[k].notes]>>
          ELSE <<>>)
         \o list_verses(book, chapter, verses, k + 1)

RECURSIVE list_chapters(_, _, _)
list_chapters(book, chapters, k) ==
    IF k > Len(chapters) THEN <<>>
    ELSE (IF chapters[k].notes # <<>>
          THEN <<[label |-> book \o <<" ">> \o chapters[k].key,
                  notes |-> chapters[k].notes]>>
          ELSE <<>>)
         \o list_verses(book, chapters[k].key, chapters[k].verses, 1)
         \o list_chapters(book, chapters, k + 1)

RECURSIVE list_books(_, _)
list_books(store, k) ==
    IF k > Len(store) THEN <<>>
    ELSE (IF store[k].notes # <<>>
          THEN <<[label |-> store[k].key, notes |-> store[k].notes]>>
          ELSE <<>>)
         \o list_chapters(store[k].key, store[k].chapters, 1)
         \o list_books(store, k + 1)

all_notes(store) == list_books(store, 1)

(***************************************************************************)
(* Bounds and inputs of the store commands.                                *)
(***************************************************************************)
MaxTotalNotes == 2      \* notes in the whole store
MaxSaveFailures == 1    \* save_notes calls that fail in one run

\* The reference strings typed (or returned by the verse API) in a run.
RefStrings(sc) ==
    CASE sc = "scopes" ->
            {<<"J","o","h","n">>, <<"j","o","h","n"," ","3">>, <<"j","O","h","n"," ","3",":","1","6">>,
             <<"J","O","H","N"," ","3",":","1","6">>, <<"A","c","t","s">>, <<"3",":","1","6">>}
      [] sc = "groups" ->
            {<<"J","o","h","n"," ","3",":","1","7">>, <<"J","o","h","n"," ","3",":","1","6","-","1","8">>,
             <<"J","o","h","n"," ","3",":","1","7","-","1","9">>}
      [] sc = "malformed" ->
            {<<"J","o","h","n"," ","3",":","1","6","-">>, <<"J","o","h","n"," ","3",":","1","6","-","1","8">>}
      [] sc = "persistence" ->
            {<<"J","o","h","n">>, <<"J","o","h","n"," ","3",":","1","6">>}

\* References the verse API returns that are never typed in a command.
QueryOnlyRefs(sc) ==
    CASE sc = "groups" -> {<<"J","o","h","n"," ","3",":","1","9">>}
      [] sc = "malformed" -> {<<"J","o","h","n"," ","3",":","1","7">>}
      [] OTHER -> {}

Scenarios == {"scopes", "groups", "malformed", "persistence"}

AllRefStrings == UNION {RefStrings(sc) \cup QueryOnlyRefs(sc) : sc \in Scenarios}

\* parse_reference on the reference strings of the runs, computed once.
ParsedRef == [r \in AllRefStrings |-> parse_reference(r)]

\* The words of the note texts, the note numbers and the note levels typed
\* in a run.
NoteWords(sc) ==
    IF sc = "scopes" THEN {<<<<"x">>>>}
    ELSE {<<<<"x">>>>, <<<<"g">>, <<"h">>>>}
NumTokens(sc) ==
    CASE sc = "scopes" -> {<<"0">>, <<"1">>, <<"2">>, <<"-","1">>, <<"t","w","o">>}
      [] sc = "persistence" -> {<<"1">>, <<"2">>}
      [] OTHER -> {<<"1">>}
NoteLevels(sc) ==
    CASE sc = "scopes" -> 0..4
      [] sc = "persistence" -> {1}
      [] OTHER -> {1, 2}

RECURSIVE SeqSum(_)
SeqSum(q) == IF Len(q) = 0 THEN 0 ELSE q[1] + SeqSum(Tail(q))

ChapterCount(chap) ==
    Len(chap.notes) + SeqSum([v \in 1..Len(chap.verses) |-> Len(chap.verses[v].notes)])
BookCount(book) ==
    Len(book.notes) + SeqSum([c \in 1..Len(book.chapters) |-> ChapterCount(book.chapters[c])])
TotalNotes(store) == SeqSum([b \in 1..Len(store) |-> BookCount(store[b])])

WithinBounds(store) == TotalNotes(store) <= MaxTotalNotes

\* shlex.split(s): the scan of the line from position p on, with the token
\* under construction tok (open when it was started), inside the quotes
\* quote ("" outside quotes) and with the tokens out already complete.
\* White space ends a token; quotes group; a backslash outside quotes takes
\* the next character as it is, and inside double quotes does so only before
\* a double quote or a backslash; a quote left open or a backslash at the
\* end raises ValueError.
RECURSIVE shlex_scan(_, _, _, _, _, _)
shlex_scan(s, p, tok, open, quote, out) ==
    IF p > Len(s)
    THEN IF quote # "" THEN [ok |-> FALSE, tokens |-> <<>>]
         ELSE [ok |-> TRUE, tokens |-> IF open THEN Append(out, tok) ELSE out]
    ELSE LET c == s[p]
         IN  IF quote = "'"
             THEN IF c = "'" THEN shlex_scan(s, p + 1, tok, TRUE, "", out)
                  ELSE shlex_scan(s, p + 1, Append(tok, c), TRUE, quote, out)
             ELSE IF quote = "\""
             THEN IF c = "\"" THEN shlex_scan(s, p + 1, tok, TRUE, "", out)
                  ELSE IF c = "\\" /\ p < Len(s) /\ s[p + 1] \in {"\"", "\\"}
                  THEN shlex_scan(s, p + 2, Append(tok, s[p + 1]), TRUE, quote, out)
                  ELSE shlex_scan(s, p + 1, Append(tok, c), TRUE, quote, out)
             ELSE IF IsSpace(c)
             THEN shlex_scan(s, p + 1, <<>>, FALSE, "",
                             IF open THEN Append(out, tok) ELSE out)
             ELSE IF c \in {"\"", "'"} THEN shlex_scan(s, p + 1, tok, TRUE, c, out)
             ELSE IF c = "\\"
             THEN IF p = Len(s) THEN [ok |-> FALSE, tokens |-> <<>>]
                  ELSE shlex_scan(s, p + 2, Append(tok, s[p + 1]), TRUE, "", out)
             ELSE shlex_scan(s, p + 1, Append(tok, c), TRUE, "", out)

shlex_split(s) == shlex_scan(s, 1, <<>>, FALSE, "", <<>>)

(***************************************************************************)
(* The commands of start_repl that read or change the store.               *)
(***************************************************************************)
NoCommand ==
    [cmd |-> "", ref |-> <<>>, text |-> <<>>, num |-> <<>>, level |-> 0,
     outcome |-> "", returned |-> <<>>, saved |-> "none"]
NothingShown == [notes |-> EmptyNotes, listing |-> <<>>]

\* What the flag scanner and parse_reference hold while the store commands run.
ParseIdle == ref_string = <<>> /\ parsed = [done |-> FALSE, ref |-> Invalid]
FlagIdle ==
    /\ parts = <<>> /\ i = 0 /\ flags = {} /\ query_parts = <<>>
    /\ joiner_str = None /\ note_level = 0 /\ pc = "idle"

\* save_notes with the file opened for appending: the new document follows
\* whatever the file held, and the whole parses only if it held nothing.
save_notes_appending(store, old, save_outcome) ==
    CASE save_outcome = "ok" ->
            IF old.state = "absent" THEN [state |-> "ok", doc |-> store]
            ELSE [state |-> "corrupt", doc |-> <<>>]
      [] save_outcome = "open_failed" -> old
      [] save_outcome = "write_failed" -> [state |-> "corrupt", doc |-> <<>>]

\* save_notes, lines 86-92: the document after the call.  open() may fail,
\* which leaves the file as it was; the write may fail after open() has
\* truncated the file, which leaves no document that parses.
save_notes(store, old, save_outcome) ==
    CASE save_outcome = "ok" -> [state |-> "ok", doc |-> store]
      [] save_outcome = "open_failed" -> old
      [] save_outcome = "write_failed" -> [state |-> "corrupt", doc |-> <<>>]

\* Failing saves are explored in the runs of the "persistence" vocabulary.
SaveOutcomes ==
    {"ok"} \cup (IF scenario = "persistence" /\ save_failures < MaxSaveFailures
                 THEN {"open_failed", "write_failed"} ELSE {})

\* A command that changes neither the store nor the document.
Reported(cmd) ==
    /\ last' = cmd
    /\ prev_notes' = bible_notes
    /\ prev_disk' = disk
    /\ shown' = NothingShown
    /\ UNCHANGED <<bible_notes, disk, synced, save_failures>>

\* A command that changed the store to store and then called save_notes.
Mutated(cmd, store, save_outcome) ==
    /\ last' = [cmd EXCEPT !.saved = save_outcome]
    /\ prev_notes' = bible_notes
    /\ prev_disk' = disk
    /\ shown' = NothingShown
    /\ bible_notes' = store
    /\ disk' = save_notes(store, disk, save_outcome)
    /\ synced' = save_outcome
    /\ save_failures' = IF save_outcome = "ok" THEN save_failures
                        ELSE save_failures + 1

\* /addnote, lines 323-360.  args are parts[1:].
AddNote(args, save_outcome) ==
    LET cmd == [NoCommand EXCEPT !.cmd = "/addnote"]
    IN  /\ IF Len(args) < 2
           THEN Reported([cmd EXCEPT !.outcome = "Usage"])
           ELSE \E ref \in {ParsedRef[args[1]]} :
                LET note_text == join(<<" ">>, Tail(args))
                    c2 == [cmd EXCEPT !.ref = args[1], !.text = note_text]
                IN  IF ref.book = None
                    THEN Reported([c2 EXCEPT !.outcome = "InvalidReference"])
                    ELSE /\ WithinBounds(add_note(bible_notes, ref, note_text))
                         /\ Mutated([c2 EXCEPT !.outcome = "Added"],
                                    add_note(bible_notes, ref, note_text),
                                    save_outcome)
        /\ UNCHANGED <<scenario, parseVars, flagVars>>

\* /delnote, lines 362-403.  args are parts[1:].
DelNote(args, save_outcome) ==
    LET cmd == [NoCommand EXCEPT !.cmd = "/delnote"]
    IN  /\ IF Len(args) # 2
           THEN Reported([cmd EXCEPT !.outcome = "Usage"])
           ELSE \E ref \in {ParsedRef[args[1]]} :
                LET c2 == [cmd EXCEPT !.ref = args[1], !.num = args[2]]
                IN  IF ref.book = None
                    THEN Reported([c2 EXCEPT !.outcome = "InvalidReference"])
                    ELSE IF ~IsInt(args[2])
                    THEN Reported([c2 EXCEPT !.outcome = "CommandError"])
                    ELSE IF target_missing(bible_notes, ref)
                    THEN Reported([c2 EXCEPT !.outcome = "NotFound"])
                    ELSE LET note_num == int(args[2]) - 1
                             list == target_list(bible_notes, ref)
                         IN  IF ~index_ok(note_num, Len(list))
                             THEN Reported([c2 EXCEPT !.outcome = "OutOfRange"])
                             ELSE IF pop_raises(list, note_num)
                             THEN Reported([c2 EXCEPT !.outcome = "CommandError"])
                             ELSE Mutated([c2 EXCEPT !.outcome = "Deleted",
                                              !.returned = list[position(list, note_num)]],
                                          del_note(bible_notes, ref, note_num),
                                          save_outcome)
        /\ UNCHANGED <<scenario, parseVars, flagVars>>

\* fetch_and_display_verses, lines 246-251, for one verse the API returned
\* with the reference `reference`, at the note level the flags gave.
Query(reference, level) ==
    \E ref \in {ParsedRef[reference]} :
    LET cmd == [NoCommand EXCEPT !.cmd = "query", !.ref = reference, !.level = level]
    IN  /\ prev_notes' = bible_notes
        /\ prev_disk' = disk
        /\ IF level > 0 /\ ref.book # None
           THEN /\ last' = [cmd EXCEPT !.outcome = "Resolved"]
                /\ shown' = [NothingShown EXCEPT !.notes =
                                get_notes_for_reference(bible_notes, ref.book,
                                    ref.chapter, ref.verse_key, level)]
           ELSE /\ last' = [cmd EXCEPT !.outcome = "NotResolved"]
                /\ shown' = NothingShown
        /\ UNCHANGED <<bible_notes, disk, synced, save_failures>>
        /\ UNCHANGED <<scenario, parseVars, flagVars>>

\* /allnotes, lines 405-429.
AllNotes ==
    LET cmd == [NoCommand EXCEPT !.cmd = "/allnotes"]
    IN  /\ prev_notes' = bible_notes
        /\ prev_disk' = disk
        /\ IF bible_notes = <<>>
           THEN /\ last' = [cmd EXCEPT !.outcome = "NoNotesFound"]
                /\ shown' = NothingShown
           ELSE /\ last' = [cmd EXCEPT !.outcome = "Listed"]
                /\ shown' = [NothingShown EXCEPT !.listing = all_notes(bible_notes)]
        /\ UNCHANGED <<bible_notes, disk, synced, save_failures>>
        /\ UNCHANGED <<scenario, parseVars, flagVars>>

AddArgs == {<<r>> : r \in RefStrings(scenario)}
           \cup {<<r>> \o w : r \in RefStrings(scenario), w \in NoteWords(scenario)}
DelArgs == {<<r>> : r \in RefStrings(scenario)}
           \cup {<<r, n>> : r \in RefStrings(scenario), n \in NumTokens(scenario)}

\* The documents a session can start from with an empty store.
StartDisks(sc) ==
    IF sc = "persistence"
    THEN {[state |-> "absent", doc |-> <<>>],
          [state |-> "corrupt", doc |-> <<>>],
          [state |-> "ok", doc |-> <<>>]}
    ELSE {[state |-> "ok", doc |-> <<>>]}

\* load_notes, lines 73-84, leaves the store empty when there is no document,
\* when the document does not parse, and when it holds the empty store.
Init ==
    /\ scenario \in Scenarios
    /\ bible_notes = <<>>
    /\ disk \in StartDisks(scenario)
    /\ last = NoCommand
    /\ prev_notes = <<>>
    /\ prev_disk = disk
    /\ shown = NothingShown
    /\ synced = "none"
    /\ save_failures = 0
    /\ ParseIdle
    /\ FlagIdle

Next ==
    \/ \E args \in AddArgs, o \in SaveOutcomes : AddNote(args, o)
    \/ \E args \in DelArgs, o \in SaveOutcomes : DelNote(args, o)
    \/ \E r \in RefStrings(scenario) \cup QueryOnlyRefs(scenario),
          level \in NoteLevels(scenario) :
           Query(r, level)
    \/ AllNotes

Spec == Init /\ [][Next]_vars

(***************************************************************************)
(* parse_reference on its own: the argument is drawn from every string up  *)
(* to MaxRefLen over ParseAlphabet and from the examples below.            *)
(***************************************************************************)
MaxRefLen == 4
ParseAlphabet == {"a", "B", " ", "1", ":", "-", ",", "."}
ParseExamples ==
    {<<"1"," ","J","o","h","n"," ","3",":","1","6","-","1","7">>,
     <<"S","o","n","g"," ","o","f"," ","S","o","l","o","m","o","n">>,
     <<"2"," ","K","i","n","g","s">>, <<"j","O","h","n"," ","3",":","1","6">>, <<"J","O","H","N"," ","3",":","1","6">>,
     <<" "," ","j","o","h","n"," ","3"," ">>, <<"J","o","h","n"," ","3",":"," ","1","6">>, <<"1"," ","a","1",":","1">>,
     <<"J","o","h","n","\t","3",":","\t","1","6">>, <<"1"," "," ","3">>}
ParseInputs ==
    UNION {[1..n -> ParseAlphabet] : n \in 0..MaxRefLen} \cup ParseExamples

\* What the store commands hold while parse_reference or the flag scanner
\* is looked at alone.
StoreIdle ==
    /\ scenario = "scopes"
    /\ bible_notes = <<>>
    /\ disk = [state |-> "absent", doc |-> <<>>]
    /\ last = NoCommand
    /\ prev_notes = <<>>
    /\ prev_disk = disk
    /\ shown = NothingShown
    /\ synced = "none"
    /\ save_failures = 0

InitParse ==
    /\ ref_string \in ParseInputs
    /\ parsed = [done |-> FALSE, ref |-> Invalid]
    /\ StoreIdle
    /\ FlagIdle

Parse ==
    /\ ~parsed.done
    /\ parsed' = [done |-> TRUE, ref |-> parse_reference(ref_string)]
    /\ UNCHANGED <<ref_string, storeVars, flagVars>>

NextParse == Parse

SpecParse == InitParse /\ [][NextParse]_vars

(***************************************************************************)
(* The flag scanner of start_repl, lines 442-505, on the tokens of one     *)
(* input line that is no command.                                          *)
(***************************************************************************)
MaxTokens == 4
Tokens ==
    {<<"-","c">>, <<"-","s">>, <<"-","v">>, <<"-","j">>, <<"-","n">>,
     <<"0">>, <<"1">>, <<"4">>, <<"5">>, <<"J","o","h","n">>}
FlagExamples ==
    {<<<<"-","n">>, <<"1">>, <<"-","n">>, <<"4">>, <<"J","o","h","n">>>>,
     <<<<"J","o","h","n">>, <<"-","n">>, <<"4">>, <<"-","v">>, <<"-","c">>>>,
     <<<<"-","j">>, <<"\\","n">>, <<"J","o","h","n">>, <<"-","c">>, <<"-","s">>>>,
     <<<<"-","j">>, <<"\\","x">>, <<"J","o","h","n">>>>,
     <<<<"-","v">>, <<"-","j">>, <<"-","n">>, <<"4">>, <<"J","o","h","n">>>>}
FlagInputs ==
    UNION {[1..n -> Tokens] : n \in 0..MaxTokens} \cup FlagExamples

\* Whether codecs.decode(token, 'unicode_escape') raises UnicodeDecodeError:
\* a backslash that ends the token, or \x without two hex digits after it.
RECURSIVE escape_fails(_)
escape_fails(tok) ==
    IF Len(tok) = 0 THEN FALSE
    ELSE IF tok[1] # "\\" THEN escape_fails(Tail(tok))
    ELSE IF Len(tok) = 1 THEN TRUE
    ELSE IF tok[2] = "x" THEN TRUE
    ELSE escape_fails(SubSeq(tok, 3, Len(tok)))

\* codecs.decode(token, 'unicode_escape') when it succeeds: \n, \t and \\
\* are decoded, an unknown escape is kept as it is.
RECURSIVE unicode_escape(_)
unicode_escape(tok) ==
    IF Len(tok) = 0 THEN <<>>
    ELSE IF tok[1] # "\\" THEN <<tok[1]>> \o unicode_escape(Tail(tok))
    ELSE LET rest == unicode_escape(SubSeq(tok, 3, Len(tok)))
         IN  CASE tok[2] = "n" -> <<"\n">> \o rest
               [] tok[2] = "t" -> <<"\t">> \o rest
               [] tok[2] = "\\" -> <<"\\">> \o rest
               [] OTHER -> <<tok[1], tok[2]>> \o rest

InitFlags ==
    /\ parts \in FlagInputs
    /\ i = 0
    /\ flags = {}
    /\ query_parts = <<>>
    /\ joiner_str = None
    /\ note_level = 0
    /\ pc = "scan"
    /\ StoreIdle
    /\ ParseIdle

\* The token the loop looks at: parts[i] of the code.
Scanning == pc = "scan" /\ i < Len(parts)
part == parts[i + 1]

\* Lines 451-456: -c and -s.
ScanCopyFlag ==
    /\ Scanning
    /\ part \in {<<"-","c">>, <<"-","s">>}
    /\ flags' = flags \cup {part}
    /\ i' = i + 1
    /\ UNCHANGED <<parts, query_parts, joiner_str, note_level, pc>>
    /\ UNCHANGED <<storeVars, parseVars>>

\* -v setting level 2 whatever -n gave before.
view_level_overrides(level) == 2

\* The level -v leaves, lines 459-460.
view_level(level) == IF level = 0 THEN 2 ELSE level

\* Lines 457-461: -v.
ScanView ==
    /\ Scanning
    /\ part = <<"-","v">>
    /\ flags' = flags \cup {part}
    /\ note_level' = view_level(note_level)
    /\ i' = i + 1
    /\ UNCHANGED <<parts, query_parts, joiner_str, pc>>
    /\ UNCHANGED <<storeVars, parseVars>>

\* Lines 462-469: -j.  A joiner that does not decode raises
\* UnicodeDecodeError, which nothing in the loop handles.
ScanJoiner ==
    /\ Scanning
    /\ part = <<"-","j">>
    /\ IF i + 1 < Len(parts)
       THEN IF escape_fails(parts[i + 2])
            THEN pc' = "crashed" /\ UNCHANGED <<joiner_str, i>>
            ELSE /\ joiner_str' = unicode_escape(parts[i + 2])
                 /\ i' = i + 2
                 /\ UNCHANGED pc
       ELSE pc' = "error" /\ UNCHANGED <<joiner_str, i>>
    /\ UNCHANGED <<parts, flags, query_parts, note_level>>
    /\ UNCHANGED <<storeVars, parseVars>>

\* Whether the level given with -n is taken, lines 473-474.
level_ok(level) == 1 <= level /\ level <= 4

\* Lines 470-488: -n.
ScanLevel ==
    /\ Scanning
    /\ part = <<"-","n">>
    /\ IF i + 1 < Len(parts) /\ IsInt(parts[i + 2]) /\ level_ok(int(parts[i + 2]))
       THEN /\ note_level' = int(parts[i + 2])
            /\ i' = i + 2
            /\ UNCHANGED pc
       ELSE pc' = "error" /\ UNCHANGED <<note_level, i>>
    /\ UNCHANGED <<parts, flags, query_parts, joiner_str>>
    /\ UNCHANGED <<storeVars, parseVars>>

\* Lines 489-491: a token of the query.
ScanWord ==
    /\ Scanning
    /\ part \notin {<<"-","c">>, <<"-","s">>, <<"-","v">>, <<"-","j">>, <<"-","n">>}
    /\ query_parts' = Append(query_parts, part)
    /\ i' = i + 1
    /\ UNCHANGED <<parts, flags, joiner_str, note_level, pc>>
    /\ UNCHANGED <<storeVars, parseVars>>

\* Lines 493-505, after the loop: the query is fetched with the flags'
\* settings, or the line is refused, or an empty line is skipped.
EndScan ==
    /\ pc = "scan" /\ i >= Len(parts)
    /\ pc' = IF join(<<" ">>, query_parts) # <<>> THEN "fetch"
             ELSE IF flags # {} \/ joiner_str # None \/ note_level > 0 THEN "error"
             ELSE "skipped"
    /\ UNCHANGED <<parts, i, flags, query_parts, joiner_str, note_level>>
    /\ UNCHANGED <<storeVars, parseVars>>

NextFlags ==
    \/ ScanCopyFlag
    \/ ScanView
    \/ ScanJoiner
    \/ ScanLevel
    \/ ScanWord
    \/ EndScan

SpecFlags == InitFlags /\ [][NextFlags]_vars

(***************************************************************************)
(* The properties.  They read the store through NoteLists, the set of its  *)
(* note lists by path, and not through the operators of the commands.      *)
(***************************************************************************)
NoteLists(store) ==
    {[book |-> store[b].key, chapter |-> None, verse_key |-> None,
      notes |-> store[b].notes] : b \in 1..Len(store)}
    \cup UNION {
        {[book |-> store[b].key, chapter |-> store[b].chapters[c].key,
          verse_key |-> None, notes |-> store[b].chapters[c].notes]
            : c \in 1..Len(store[b].chapters)} : b \in 1..Len(store)}
    \cup UNION { UNION {
        {[book |-> store[b].key, chapter |-> store[b].chapters[c].key,
          verse_key |-> store[b].chapters[c].verses[v].key,
          notes |-> store[b].chapters[c].verses[v].notes]
            : v \in 1..Len(store[b].chapters[c].verses)}
            : c \in 1..Len(store[b].chapters)} : b \in 1..Len(store)}

\* The path of the list a reference selects: a reference without a chapter
\* selects the book's list whether or not it has a verse key.
PathOf(ref) ==
    IF ref.chapter = None
    THEN [book |-> ref.book, chapter |-> None, verse_key |-> None]
    ELSE [book |-> ref.book, chapter |-> ref.chapter, verse_key |-> ref.verse_key]

ListsAt(store, path) ==
    {e \in NoteLists(store) :
        e.book = path.book /\ e.chapter = path.chapter /\ e.verse_key = path.verse_key}
Present(store, path) == ListsAt(store, path) # {}
ListAt(store, path) ==
    IF Present(store, path) THEN (CHOOSE e \in ListsAt(store, path) : TRUE).notes
    ELSE <<>>

\* The last command is a deleteNote(ref, position): a /delnote with a valid
\* reference and an integer.
IsDelete ==
    /\ last.cmd = "/delnote" /\ last.outcome # "Usage"
    /\ ParsedRef[last.ref].book # None
    /\ IsInt(last.num)
DelPath == PathOf(ParsedRef[last.ref])
DelPos == int(last.num)

\* C1: a deleteNote fails with NotFound when the container its reference
\* selects is absent and with OutOfRange when the container exists and the
\* position is outside 1..length; a failed delete leaves every note list,
\* every container and the persisted document as they were, and calls no
\* save.
C1_FailedDeleteChangesNothing ==
    IsDelete =>
        /\ ~Present(prev_notes, DelPath) => last.outcome = "NotFound"
        /\ (/\ Present(prev_notes, DelPath)
            /\ (DelPos < 1 \/ DelPos > Len(ListAt(prev_notes, DelPath))))
               => last.outcome = "OutOfRange"
        /\ last.outcome \in {"NotFound", "OutOfRange"} =>
               /\ bible_notes = prev_notes
               /\ disk = prev_disk
               /\ last.saved = "none"

\* A delete at position 0 of a list that holds a note failed with OutOfRange.
C1_Witness ==
    /\ IsDelete /\ last.outcome = "OutOfRange" /\ DelPos = 0
    /\ Len(ListAt(bible_notes, DelPath)) > 0

\* A delete on a reference whose verse key is absent, in a chapter that
\* exists, failed with NotFound.
C1_WitnessNotFound ==
    /\ IsDelete /\ last.outcome = "NotFound"
    /\ Present(bible_notes, [DelPath EXCEPT !.verse_key = None])
    /\ DelPath.verse_key # None

\* C2: a deleteNote(ref, p) with 1 <= p <= length removes the p-th note of
\* the selected list and returns it: the notes before p stay, the notes
\* after p move down by one, every other list and every container is as
\* before.
C2_ValidDeleteRemovesOne ==
    (/\ IsDelete /\ Present(prev_notes, DelPath)
     /\ 1 <= DelPos /\ DelPos <= Len(ListAt(prev_notes, DelPath))) =>
        LET old == ListAt(prev_notes, DelPath)
            new == ListAt(bible_notes, DelPath)
        IN  /\ last.outcome = "Deleted"
            /\ last.returned = old[DelPos]
            /\ Len(new) = Len(old) - 1
            /\ \A k \in 1..Len(new) : new[k] = IF k < DelPos THEN old[k] ELSE old[k + 1]
            /\ NoteLists(bible_notes) \ ListsAt(bible_notes, DelPath)
                   = NoteLists(prev_notes) \ ListsAt(prev_notes, DelPath)
            /\ Present(bible_notes, DelPath)

\* The first of two different notes was deleted: the second moved down.
C2_Witness ==
    /\ IsDelete /\ last.outcome = "Deleted" /\ DelPos = 1
    /\ Len(ListAt(prev_notes, DelPath)) = 2
    /\ ListAt(prev_notes, DelPath)[1] # ListAt(prev_notes, DelPath)[2]
    /\ ListAt(bible_notes, DelPath) = <<ListAt(prev_notes, DelPath)[2]>>

\* The last command changed the store.
StoreChanged == bible_notes # prev_notes
LastPath == PathOf(ParsedRef[last.ref])

\* C3: whenever the most recent save succeeded the persisted document is
\* the in-memory store; a save is attempted after a command exactly when
\* the command added or deleted a note; a failed save leaves the store as
\* the command changed it.
C3_PersistenceMirrorsStore ==
    /\ synced = "ok" => disk = [state |-> "ok", doc |-> bible_notes]
    /\ last.saved # "none" <=> StoreChanged
    /\ last.saved # "none" <=> last.outcome \in {"Added", "Deleted"}
    /\ last.saved # "none" => synced = last.saved
    /\ last.saved \in {"open_failed", "write_failed"} =>
           /\ last.cmd = "/addnote" =>
                  ListAt(bible_notes, LastPath)
                      = Append(ListAt(prev_notes, LastPath), last.text)
           /\ last.cmd = "/delnote" =>
                  Len(ListAt(bible_notes, LastPath))
                      = Len(ListAt(prev_notes, LastPath)) - 1

\* A save that succeeded after an earlier one had failed: the document
\* equals the store again.
C3_Witness ==
    /\ save_failures > 0 /\ synced = "ok" /\ last.saved = "ok"
    /\ last.cmd = "/delnote"
    /\ bible_notes # <<>>
    /\ disk = [state |-> "ok", doc |-> bible_notes]
    /\ prev_disk # [state |-> "ok", doc |-> prev_notes]

\* The last command is an addNote(ref, x) that added x under a reference
\* with book, chapter and verse key.
IsVerseAdd ==
    /\ last.cmd = "/addnote" /\ last.outcome = "Added"
    /\ ParsedRef[last.ref].chapter # None
    /\ ParsedRef[last.ref].verse_key # None

\* C4: after addNote(ref, x) under a reference with book, chapter and verse
\* key, resolve(ref, level).individual is, at every level 1..4, the list
\* that exact verse key had before with x appended last.
C4_AddResolveRoundTrip ==
    IsVerseAdd =>
        \A level \in 1..4 :
            get_notes_for_reference(bible_notes, ParsedRef[last.ref].book,
                ParsedRef[last.ref].chapter, ParsedRef[last.ref].verse_key,
                level).individual
            = Append(ListAt(prev_notes, LastPath), last.text)

\* A second note was added under a range key that already held one.
C4_Witness ==
    /\ IsVerseAdd
    /\ "-" \in Range(ParsedRef[last.ref].verse_key)
    /\ Len(ListAt(prev_notes, LastPath)) = 1
    /\ Len(ListAt(bible_notes, LastPath)) = 2

\* The references a run can ask notes for.
KnownRefs == RefStrings(scenario) \cup QueryOnlyRefs(scenario)
Resolve(r, level) ==
    get_notes_for_reference(bible_notes, ParsedRef[r].book, ParsedRef[r].chapter,
                            ParsedRef[r].verse_key, level)
Scopes == {"book", "chapter", "group", "individual"}

\* C7: for every queried reference and every L in 2..4, each scope list that
\* resolve returns non-empty at level L-1 is returned unchanged at level L;
\* book is non-empty only at level 4, chapter only from level 3, group only
\* from level 2, individual only from level 1; at level 0 the resolver is
\* not called and no notes are shown; a query at a level above 0 shows what
\* resolve returns at that level.
C7_LevelMonotonicity ==
    /\ last.cmd = "query" =>
        LET at == [level \in 0..4 |-> Resolve(last.ref, level)]
        IN  /\ \A L \in 2..4 : \A scope \in Scopes :
                   at[L - 1][scope] # <<>> => at[L][scope] = at[L - 1][scope]
            /\ \A level \in 0..4 :
                   /\ level < 4 => at[level].book = <<>>
                   /\ level < 3 => at[level].chapter = <<>>
                   /\ level < 2 => at[level].group = <<>>
                   /\ level < 1 => at[level].individual = <<>>
    /\ last.cmd = "query" =>
           /\ last.level = 0 => last.outcome = "NotResolved" /\ shown.notes = EmptyNotes
           /\ last.outcome = "Resolved" => shown.notes = Resolve(last.ref, last.level)

\* A query at level 4 showed notes that level 3 shows too, and book notes
\* that only level 4 shows.
C7_Witness ==
    /\ last.cmd = "query" /\ last.level = 4 /\ last.outcome = "Resolved"
    /\ shown.notes.book # <<>>
    /\ \/ shown.notes.chapter # <<>>
       \/ shown.notes.individual # <<>>
    /\ Resolve(last.ref, 3).book = <<>>

\* Every letter of s is upper-case exactly where it begins a run of letters.
TitleCased(s) ==
    \A k \in 1..Len(s) :
        IsLetter(s[k]) => (IsUpper(s[k]) <=> (k = 1 \/ ~IsLetter(s[k - 1])))

\* C8: every book key of the store is title-cased and trimmed, and no two
\* book keys are equal when case is ignored; after a note is added under
\* one casing of a reference, every other casing of that reference selects
\* the same list for delete, finds the note with resolve, and /allnotes
\* lists it under the one normalized heading.
C8_BookKeysNormalized ==
    /\ \A b \in 1..Len(bible_notes) :
           /\ TitleCased(bible_notes[b].key)
           /\ strip(bible_notes[b].key) = bible_notes[b].key
           /\ \A b2 \in 1..Len(bible_notes) :
                  b # b2 => lower(bible_notes[b].key) # lower(bible_notes[b2].key)
    /\ (last.cmd = "/addnote" /\ last.outcome = "Added") =>
           \A r \in RefStrings(scenario) :
               lower(r) = lower(last.ref) =>
                   LET path == PathOf(ParsedRef[r])
                       list == ListAt(bible_notes, path)
                   IN  /\ Present(bible_notes, path)
                       /\ ~target_missing(bible_notes, ParsedRef[r])
                       /\ target_list(bible_notes, ParsedRef[r]) = list
                       /\ Len(list) > 0 /\ list[Len(list)] = last.text
                       /\ path.verse_key # None =>
                              Resolve(r, 1).individual = list
                       /\ \E k \in 1..Len(all_notes(bible_notes)) :
                              /\ lower(all_notes(bible_notes)[k].label) = lower(r)
                              /\ all_notes(bible_notes)[k].notes = list
                              /\ TitleCased(all_notes(bible_notes)[k].label)

\* A note was added under "jOhn 3:16" and sits under the book key "John",
\* which "JOHN 3:16" selects too.
C8_Witness ==
    /\ last.cmd = "/addnote" /\ last.outcome = "Added"
    /\ last.ref = <<"j","O","h","n"," ","3",":","1","6">>
    /\ Len(bible_notes) = 1
    /\ bible_notes[1].key = <<"J","o","h","n">>
    /\ ~target_missing(bible_notes, ParsedRef[<<"J","O","H","N"," ","3",":","1","6">>])

\* The last command resolved notes at level 2 or more for a reference with
\* book, chapter and a verse key that starts with an integer.
IsGroupQuery ==
    /\ last.cmd = "query" /\ last.outcome = "Resolved" /\ last.level >= 2
    /\ ParsedRef[last.ref].chapter # None
    /\ ParsedRef[last.ref].verse_key # None
    /\ IsInt(split(ParsedRef[last.ref].verse_key, "-")[1])
TargetKey == ParsedRef[last.ref].verse_key
TargetNum == int(split(TargetKey, "-")[1])

\* The verse entries, in insertion order, of the chapter the last command's
\* reference names; none when the book or the chapter is not stored.
StoredVerses ==
    LET ref == ParsedRef[last.ref]
    IN  IF ~HasKey(bible_notes, ref.book) THEN <<>>
        ELSE LET book == bible_notes[Find(bible_notes, ref.book)]
             IN  IF ~HasKey(book.chapters, ref.chapter) THEN <<>>
                 ELSE book.chapters[Find(book.chapters, ref.chapter)].verses

\* A stored key that is a range start-end of two integers holding n and is
\* not the target key itself.
ContainingRange(key, target, n) ==
    /\ "-" \in Range(key)
    /\ key # target
    /\ Len(split(key, "-")) = 2
    /\ IsInt(split(key, "-")[1]) /\ IsInt(split(key, "-")[2])
    /\ int(split(key, "-")[1]) <= n /\ n <= int(split(key, "-")[2])

RECURSIVE ConcatContaining(_, _, _)
ConcatContaining(verses, target, n) ==
    IF Len(verses) = 0 THEN <<>>
    ELSE (IF ContainingRange(verses[1].key, target, n) THEN verses[1].notes ELSE <<>>)
         \o ConcatContaining(Tail(verses), target, n)

\* C5: at level 2 or more, for a target verse key with leading integer n,
\* group is the concatenation, in insertion order, of the notes of exactly
\* the stored verse keys of the chapter that hold a hyphen, differ from the
\* target and split into two integers start <= n <= end.
C5_GroupIsTheContainingRanges ==
    IsGroupQuery =>
        shown.notes.group = ConcatContaining(StoredVerses, TargetKey, TargetNum)

\* Whether sub occurs in list as a run of consecutive elements.
IsRunOf(sub, list) ==
    \E from \in 0..(Len(list) - Len(sub)) :
        SubSeq(list, from + 1, from + Len(sub)) = sub

\* A stored key with a hyphen that is not start-end of two integers.
Malformed(key) ==
    /\ "-" \in Range(key)
    /\ ~(/\ Len(split(key, "-")) = 2
         /\ IsInt(split(key, "-")[1]) /\ IsInt(split(key, "-")[2]))

\* C6: a stored verse key with a hyphen that does not parse as int-int
\* contributes nothing to group and keeps no other stored range that holds
\* the target verse, stored before or after it, from contributing its notes.
C6_MalformedKeysAreSkipped ==
    (IsGroupQuery /\ \E m \in 1..Len(StoredVerses) : Malformed(StoredVerses[m].key)) =>
        \A v \in 1..Len(StoredVerses) :
            ContainingRange(StoredVerses[v].key, TargetKey, TargetNum)
                => IsRunOf(StoredVerses[v].notes, shown.notes.group)

\* The ways a trimmed string s reads as a reference: an optional digit and
\* white space (d = 2), a book name of letters and white space up to b,
\* chapter digits up to c, and then the end (v = 0) or a colon and a verse
\* key of digits, hyphens and commas from v to the end.  With colon_space,
\* white space may stand between the colon and the verse key.
ReferenceForms(s, colon_space) ==
    {f \in [d : {0, 2}, b : 1..Len(s), c : 1..Len(s), v : 0..Len(s)] :
        /\ f.d = 2 => Len(s) >= 2 /\ IsDigit(s[1]) /\ IsSpace(s[2])
        /\ f.b > f.d
        /\ \A k \in (f.d + 1)..f.b : IsBookChar(s[k])
        /\ f.c >= f.b
        /\ \A k \in (f.b + 1)..f.c : IsDigit(s[k])
        /\ f.v = 0 => f.c = Len(s)
        /\ f.v # 0 =>
               /\ f.c < Len(s) /\ s[f.c + 1] = ":"
               /\ f.v >= f.c + 2
               /\ colon_space \/ f.v = f.c + 2
               /\ \A k \in (f.c + 2)..(f.v - 1) : IsSpace(s[k])
               /\ \A k \in f.v..Len(s) : IsVerseChar(s[k])}

\* ref is the Reference the form f of s stands for: the book is the
\* captured name with its leading digit, trimmed and title-cased.
ReadsAs(ref, s, f) ==
    /\ lower(ref.book) = lower(strip(SubSeq(s, 1, f.b)))
    /\ TitleCased(ref.book)
    /\ ref.chapter = SubSeq(s, f.b + 1, f.c)
    /\ ref.verse_key = IF f.v = 0 THEN None ELSE SubSeq(s, f.v, Len(s))

ParsesByForms(colon_space) ==
    parsed.done =>
        LET s == strip(ref_string)
            forms == ReferenceForms(s, colon_space)
        IN  /\ forms = {} => parsed.ref = Invalid
            /\ \A f \in forms : ReadsAs(parsed.ref, s, f)
            /\ forms # {} => parsed.ref.book # None

ParseExamplesHold ==
    /\ (parsed.done /\ ref_string = <<"1"," ","J","o","h","n"," ","3",":","1","6","-","1","7">>) =>
           parsed.ref = [book |-> <<"1"," ","J","o","h","n">>, chapter |-> <<"3">>,
                         verse_key |-> <<"1","6","-","1","7">>]
    /\ (parsed.done /\ ref_string = <<"S","o","n","g"," ","o","f"," ","S","o","l","o","m","o","n">>) =>
           parsed.ref = [book |-> <<"S","o","n","g"," ","O","f"," ","S","o","l","o","m","o","n">>,
                         chapter |-> None, verse_key |-> None]
    /\ (parsed.done /\ ref_string = <<>>) => parsed.ref = Invalid

\* C9, read to the letter: parse returns a Reference exactly for the trimmed inputs
\* made of an optional leading digit and space, a book name of letters and
\* spaces, optional chapter digits and an optional ':' followed at once by
\* a verse key of digits, hyphens and commas; every other input is invalid.
C9_ParseAsStated == ParsesByForms(FALSE) /\ ParseExamplesHold

\* C9, with white space allowed after the colon: parse returns a Reference
\* exactly for the trimmed inputs made of an optional leading digit and
\* space, a book name of letters and spaces, optional chapter digits and an
\* optional ':' followed by optional white space and a verse key of digits,
\* hyphens and commas; the book is the captured name trimmed and title-cased
\* with its leading digit, the chapter the digits or null, the verse key the
\* captured key or null; every other input is invalid.
C9_ParseWithColonSpace == ParsesByForms(TRUE) /\ ParseExamplesHold

\* "1 John 3:16-17" was parsed, leading digit retained.
C9_Witness ==
    /\ parsed.done
    /\ ref_string = <<"1"," ","J","o","h","n"," ","3",":","1","6","-","1","7">>
    /\ parsed.ref.book = <<"1"," ","J","o","h","n">>
    /\ parsed.ref.verse_key = <<"1","6","-","1","7">>

\* The positions of parts (1-based) at which a flag or a query token
\* starts: -j and -n take the token after them as their argument.
RECURSIVE TokenStarts(_, _)
TokenStarts(tokens, k) ==
    IF k > Len(tokens) THEN {}
    ELSE {k} \cup TokenStarts(tokens,
                              IF tokens[k] \in {<<"-","j">>, <<"-","n">>} THEN k + 2 ELSE k + 1)

LevelFlags == {k \in TokenStarts(parts, 1) : parts[k] = <<"-","n">>}
ViewFlags == {k \in TokenStarts(parts, 1) : parts[k] = <<"-","v">>}
ValidLevelFlag(k) ==
    /\ k < Len(parts) /\ IsInt(parts[k + 1])
    /\ 1 <= int(parts[k + 1]) /\ int(parts[k + 1]) <= 4

\* C10: a line is fetched only if every -n on it has a value in 1..4; the
\* note level it is fetched with is the value of the last -n when there is
\* one, whatever -v stands before or after it, 2 when there is a -v and no
\* -n, and 0 otherwise; a -n whose value is missing, no number or out of
\* range is never scanned past, is refused as an error when the scan
\* reaches it, and its line is never fetched.
C10_NoteLevelFlags ==
    /\ pc = "fetch" =>
           /\ \A k \in LevelFlags : ValidLevelFlag(k)
           /\ note_level =
                  IF LevelFlags # {}
                  THEN int(parts[(CHOOSE k \in LevelFlags :
                                     \A k2 \in LevelFlags : k2 <= k) + 1])
                  ELSE IF ViewFlags # {} THEN 2 ELSE 0
    /\ \A k \in LevelFlags :
           ~ValidLevelFlag(k) =>
               /\ pc \notin {"fetch", "skipped"}
               /\ i <= k - 1
               /\ i = k - 1 => pc \in {"scan", "error"}

\* A line with -n 4 and a later -v was fetched at level 4.
C10_Witness ==
    /\ pc = "fetch" /\ note_level = 4
    /\ \E k \in LevelFlags, k2 \in ViewFlags : k < k2

\* A -n with a value out of range was refused.
C10_WitnessRefused ==
    /\ pc = "error"
    /\ \E k \in LevelFlags : i = k - 1 /\ ~ValidLevelFlag(k)

(***************************************************************************)
(* The loop of start_repl, lines 304-505: one line is read at the prompt,  *)
(* a command is handled in one step, any other line is scanned for flags   *)
(* and its query is fetched.                                               *)
(***************************************************************************)
\* The lines typed at the prompt.
CommandLines ==
    {<<"/","a","d","d","n","o","t","e"," ","J","o","h","n"," ","x">>,
     <<"/","a","d","d","n","o","t","e"," ","3",":","1","6"," ","x">>,
     <<"/","a","d","d","n","o","t","e"," ","J","o","h","n">>,
     <<"/","d","e","l","n","o","t","e"," ","J","o","h","n"," ","1">>,
     <<"/","d","e","l","n","o","t","e"," ","J","o","h","n"," ","0">>,
     <<"/","d","e","l","n","o","t","e"," ","J","o","h","n"," ","t","w","o">>,
     <<"/","d","e","l","n","o","t","e"," ","J","o","h","n">>,
     <<"/","a","l","l","n","o","t","e","s">>,
     <<"/","h","e","l","p">>,
     <<"/","n","o","p","e">>,
     <<"/","a","d","d","n","o","t","e"," ","\"","J","o","h","n"," ","x">>}
QueryLines ==
    {<<"J","o","h","n">>,
     <<"J","o","h","n"," ","-","c">>,
     <<"-","n"," ","2"," ","J","o","h","n"," ","-","c"," ","-","s">>,
     <<"-","v"," ","-","n"," ","4"," ","J","o","h","n">>,
     <<"-","n"," ","5"," ","J","o","h","n">>,
     <<"-","n"," ","t","w","o"," ","J","o","h","n">>,
     <<"-","c">>,
     <<"\"","J","o","h","n">>,
     <<"-","j"," ","\"","\\","x","\""," ","J","o","h","n">>,
     <<"-","j"," ","\"","\\","n","\""," ","J","o","h","n"," ","-","c">>,
     <<"-","j">>}
OtherLines ==
    {<<" "," ">>,
     <<"q","u","i","t">>,
     <<" ","E","X","I","T"," ">>}
ReplLines == CommandLines \cup QueryLines \cup OtherLines

\* Lines 307-315: what the loop does with the stripped line first.
IsQuit(input) == lower(input) \in {<<"q","u","i","t">>, <<"e","x","i","t">>}
IsCommand(input) == Len(input) > 0 /\ input[1] = "/"
IsQuery(input) == Len(input) > 0 /\ ~IsQuit(input) /\ ~IsCommand(input)

\* The command of a command line: parts[0].lower(), line 317.
command(input) == lower(shlex_split(input).tokens[1])

\* What lines 305-317 make of each line, computed once: the stripped line's
\* kind, its tokens, and the command when it is one.
ReadLines ==
    [line \in ReplLines |->
        LET input == strip(line)
            sp == IF input = <<>> THEN [ok |-> TRUE, tokens |-> <<>>]
                  ELSE shlex_split(input)
        IN  [empty |-> input = <<>>,
             quit |-> IsQuit(input),
             is_command |-> IsCommand(input),
             is_query |-> IsQuery(input),
             ok |-> sp.ok,
             parts |-> sp.tokens,
             command |-> IF IsCommand(input) /\ sp.ok THEN command(input) ELSE <<>>]]

AtPrompt == pc = "prompt"

\* The state after load_notes, line 298, with the loop at its first prompt.
InitRepl ==
    /\ scenario = "persistence"
    /\ bible_notes = <<>>
    /\ disk \in StartDisks(scenario)
    /\ last = NoCommand
    /\ prev_notes = <<>>
    /\ prev_disk = disk
    /\ shown = NothingShown
    /\ synced = "none"
    /\ save_failures = 0
    /\ ParseIdle
    /\ parts = <<>> /\ i = 0 /\ flags = {} /\ query_parts = <<>>
    /\ joiner_str = None /\ note_level = 0
    /\ pc = "prompt"

\* A step of the loop that prints something and changes no notes.
Printed(cmd) ==
    /\ Reported(cmd)
    /\ UNCHANGED <<scenario, parseVars>>

\* Lines 307-309: quit or exit ends the loop.
ReplQuit(line) ==
    /\ AtPrompt
    /\ ReadLines[line].quit
    /\ Printed([NoCommand EXCEPT !.cmd = "quit", !.outcome = "Goodbye"])
    /\ pc' = "terminated"
    /\ UNCHANGED <<parts, i, flags, query_parts, joiner_str, note_level>>

\* Lines 311-312: an empty line.
ReplEmpty(line) ==
    /\ AtPrompt
    /\ ReadLines[line].empty
    /\ UNCHANGED vars

\* Lines 314-317: the line is a command that shlex.split takes apart and
\* whose first token, in lower case, is name.
Dispatch(line, name) ==
    /\ AtPrompt
    /\ ReadLines[line].is_command
    /\ ReadLines[line].ok
    /\ ReadLines[line].command = name

\* Lines 316 and 433-434: shlex.split raises on a command line.
ReplCommandError(line) ==
    /\ AtPrompt
    /\ ReadLines[line].is_command
    /\ ~ReadLines[line].ok
    /\ Printed([NoCommand EXCEPT !.cmd = "command", !.outcome = "CommandError"])
    /\ UNCHANGED flagVars

\* Lines 319-321: /help.
ReplHelp(line) ==
    /\ Dispatch(line, <<"/","h","e","l","p">>)
    /\ Printed([NoCommand EXCEPT !.cmd = "/help", !.outcome = "Help"])
    /\ UNCHANGED flagVars

\* Lines 323-360: /addnote.
ReplAddNote(line, save_outcome) ==
    /\ Dispatch(line, <<"/","a","d","d","n","o","t","e">>)
    /\ AddNote(Tail(ReadLines[line].parts), save_outcome)

\* Lines 362-403: /delnote.
ReplDelNote(line, save_outcome) ==
    /\ Dispatch(line, <<"/","d","e","l","n","o","t","e">>)
    /\ DelNote(Tail(ReadLines[line].parts), save_outcome)

\* Lines 405-429: /allnotes.
ReplAllNotes(line) ==
    /\ Dispatch(line, <<"/","a","l","l","n","o","t","e","s">>)
    /\ AllNotes

\* Line 432: any other command.
ReplUnknown(line) ==
    /\ AtPrompt
    /\ ReadLines[line].is_command
    /\ ReadLines[line].ok
    /\ ReadLines[line].command \notin {<<"/","h","e","l","p">>, <<"/","a","d","d","n","o","t","e">>,
                                    <<"/","d","e","l","n","o","t","e">>,
                                    <<"/","a","l","l","n","o","t","e","s">>}
    /\ Printed([NoCommand EXCEPT !.cmd = "command", !.outcome = "UnknownCommand"])
    /\ UNCHANGED flagVars

\* Lines 436-440: shlex.split raises on a line that is no command.
ReplMismatchedQuotes(line) ==
    /\ AtPrompt
    /\ ReadLines[line].is_query
    /\ ~ReadLines[line].ok
    /\ Printed([NoCommand EXCEPT !.cmd = "query", !.outcome = "MismatchedQuotes"])
    /\ pc' = "error"
    /\ UNCHANGED <<parts, i, flags, query_parts, joiner_str, note_level>>

\* Lines 436-448: the tokens of a line that is no command, and the flag
\* scan's locals before its loop.
ReplScan(line) ==
    /\ AtPrompt
    /\ ReadLines[line].is_query
    /\ ReadLines[line].ok
    /\ Printed([NoCommand EXCEPT !.cmd = "query"])
    /\ parts' = ReadLines[line].parts
    /\ i' = 0
    /\ flags' = {}
    /\ query_parts' = <<>>
    /\ joiner_str' = None
    /\ note_level' = 0
    /\ pc' = "scan"

\* What requests.get, raise_for_status and response.json give, lines
\* 227-229, and what pyperclip.copy does, line 266.
Upstreams == {"request_failed", "not_json", "no_verses", "malformed_verses", "verses"}
Clipboards == {"ok", "failed"}

\* fetch_and_display_verses, lines 214-272, called at line 505, for a
\* response with one verse.  RequestException and ValueError are handled at
\* lines 269-272; the AttributeError of verse.get on a verse that is no
\* object and the PyperclipException of pyperclip.copy are not, and leave
\* start_repl.
Fetch(upstream, reference, clipboard) ==
    \E ref \in {ParsedRef[reference]} :
    LET cmd == [NoCommand EXCEPT !.cmd = "query", !.level = note_level]
        copies == <<"-","c">> \in flags
    IN  /\ pc = "fetch"
        /\ CASE upstream = "request_failed" ->
                    /\ last' = [cmd EXCEPT !.outcome = "NetworkError"]
                    /\ shown' = NothingShown
                    /\ pc' = "fetched"
             [] upstream = "not_json" ->
                    /\ last' = [cmd EXCEPT !.outcome = "ParseError"]
                    /\ shown' = NothingShown
                    /\ pc' = "fetched"
             [] upstream = "no_verses" ->
                    /\ last' = [cmd EXCEPT !.outcome = "VerseNotFound"]
                    /\ shown' = NothingShown
                    /\ pc' = "fetched"
             [] upstream = "malformed_verses" ->
                    /\ last' = [cmd EXCEPT !.outcome = "Traceback"]
                    /\ shown' = NothingShown
                    /\ pc' = "crashed"
             [] upstream = "verses" ->
                    /\ IF note_level > 0 /\ ref.book # None
                       THEN shown' = [NothingShown EXCEPT !.notes =
                                        get_notes_for_reference(bible_notes, ref.book,
                                            ref.chapter, ref.verse_key, note_level)]
                       ELSE shown' = NothingShown
                    /\ IF copies /\ clipboard = "failed"
                       THEN /\ last' = [cmd EXCEPT !.ref = reference, !.outcome = "Traceback"]
                            /\ pc' = "crashed"
                       ELSE /\ last' = [cmd EXCEPT !.ref = reference,
                                           !.outcome = IF copies THEN "Copied" ELSE "Found"]
                            /\ pc' = "fetched"
        /\ UNCHANGED <<bible_notes, disk, prev_notes, prev_disk, synced, save_failures,
                       scenario>>
        /\ UNCHANGED <<parts, i, flags, query_parts, joiner_str, note_level>>
        /\ UNCHANGED parseVars

\* The continue statements of lines 441, 494 and 503 and the end of the
\* loop body after line 505: back to the prompt.
NextPrompt ==
    /\ pc \in {"error", "skipped", "fetched"}
    /\ pc' = "prompt"
    /\ UNCHANGED <<parts, i, flags, query_parts, joiner_str, note_level>>
    /\ UNCHANGED <<storeVars, parseVars>>

NextRepl ==
    \/ \E line \in ReplLines : ReplQuit(line)
    \/ \E line \in ReplLines : ReplEmpty(line)
    \/ \E line \in ReplLines : ReplCommandError(line)
    \/ \E line \in ReplLines : ReplHelp(line)
    \/ \E line \in ReplLines, o \in SaveOutcomes : ReplAddNote(line, o)
    \/ \E line \in ReplLines, o \in SaveOutcomes : ReplDelNote(line, o)
    \/ \E line \in ReplLines : ReplAllNotes(line)
    \/ \E line \in ReplLines : ReplUnknown(line)
    \/ \E line \in ReplLines : ReplMismatchedQuotes(line)
    \/ \E line \in ReplLines : ReplScan(line)
    \/ ScanCopyFlag
    \/ ScanView
    \/ ScanJoiner
    \/ ScanLevel
    \/ ScanWord
    \/ EndScan
    \/ \E u \in Upstreams, r \in RefStrings(scenario), c \in Clipboards : Fetch(u, r, c)
    \/ NextPrompt

SpecRepl == InitRepl /\ [][NextRepl]_vars

\* The outcomes that report an error of the user, a missing container or
\* verse, or a failure of the network or the upstream service.
ErrorOutcomes ==
    {"Usage", "InvalidReference", "CommandError", "NotFound", "OutOfRange",
     "UnknownCommand", "MismatchedQuotes", "NetworkError", "ParseError", "VerseNotFound"}

\* Every line but quit and exit is handled with the loop still running: the
\* store and the document are as they were when the line was read after an
\* error outcome and all through a line that is no command, and a failed
\* save keeps the mutation made before it with the loop back at the prompt.
LoopSurvivesWhatItHandles ==
    /\ pc = "terminated" => last.cmd = "quit"
    /\ last.outcome \in ErrorOutcomes =>
           /\ bible_notes = prev_notes /\ disk = prev_disk
           /\ pc \in {"prompt", "error", "fetched"}
    /\ pc \in {"scan", "fetch", "error", "skipped", "fetched"} =>
           bible_notes = prev_notes /\ disk = prev_disk
    /\ last.saved \in {"open_failed", "write_failed"} =>
           /\ pc = "prompt"
           /\ bible_notes # prev_notes
           /\ last.outcome \in {"Added", "Deleted"}

\* C11: no input line and no error outcome ends the loop except quit and
\* exit: the loop never leaves start_repl through an exception, it ends
\* only on quit or exit, and every user error, not-found error, save
\* failure, network or upstream error and clipboard failure is reported
\* with the store unchanged (but for the mutation made before a failed
\* save) and the loop reading the next line.
C11_OnlyQuitEndsTheLoop ==
    /\ pc # "crashed"
    /\ LoopSurvivesWhatItHandles

====
